---------------------------- MODULE Spec2Model ----------------------------
(***************************************************************************)
(* Tweet watcher, PostgreSQL edition (src/src/index.js and its later       *)
(* revision src/unnamed/part_002): the poll cycle engine, its timer, the   *)
(* manual trigger and the config update, the watermark table "state".      *)
(*                                                                         *)
(* poll() is an async function: every `await` is a point where the event   *)
(* loop may run another callback (a timer, an HTTP handler, another poll). *)
(* One action below is the code that runs between two awaits.              *)
(*                                                                         *)
(* Tweet ids are strings that the code compares with `>` and localeCompare;*)
(* the ids of the model are 1..MaxId, standing for the rank of the id in   *)
(* that string order; 0 stands for null (no row / falsy last_seen_id).     *)
(***************************************************************************)
EXTENDS Integers, Sequences, FiniteSets, TLC

\* ------------------------------------------------------------------ bounds
MaxId == 5          \* tweet ids are 1..MaxId
MaxPolls == 2       \* poll() is called at most MaxPolls times in a run
MaxFetch == 2       \* a fetch returns at most MaxFetch items
MaxWebhookId == 102 \* the webhook receiver is sent the tweet ids 1..MaxWebhookId
MergeDepth == 2     \* the objects given to deepMerge nest at most MergeDepth deep
MaxSession == 2      \* the MCP server has at most MaxSession SSE connections at a time
MaxExec == 3        \* sendToOpenClaw is called at most MaxExec times in a run with callbacks

\* ------------------------------------------------------- program constants
DefaultInterval == 15
MinInterval == 1    \* PUT /config: the least pollIntervalMinutes accepted
MaxInterval == 1440 \* PUT /config: the greatest pollIntervalMinutes accepted
MaxRecent == 100    \* part_004: the size recentTweets is cut back to

\* --------------------------------------------------------------- universes
NoAuthor == "?"                      \* tweet.author?.userName is undefined
Ids == 1..MaxId
PollIds == 1..MaxPolls
\* the rows of table config the model moves between: the row initDb inserts
\* (no handles, no webhook URL, 15 minutes), one handle without a webhook
\* URL, and two handles with a webhook URL and another interval
Configs ==
  {[webhookUrl |-> "", handles |-> {}, pollIntervalMinutes |-> DefaultInterval],
   [webhookUrl |-> "", handles |-> {"alice"}, pollIntervalMinutes |-> DefaultInterval],
   [webhookUrl |-> "http://hook", handles |-> {"alice", "bob"}, pollIntervalMinutes |-> 30]}

\* tweet.author.userName of the tweet with id i, as the scraper returns it
AuthorOf(i) ==
  CASE i % 5 = 1 -> NoAuthor
    [] i % 5 = 0 -> "Bob"
    [] OTHER -> "Alice"

Names == {"Alice", "alice", "Bob", "bob"}

\* String.prototype.toLowerCase
toLowerCase(h) ==
  CASE h = "Alice" -> "alice"
    [] h = "Bob" -> "bob"
    [] OTHER -> h

\* --------------------------------------------------------------- variables
VARIABLES
  config,       \* the row of table config (getConfig / saveConfig)
  handleConfigs, \* table handle_config: handle -> row, NoRow when there is none
  userConfig,   \* part_002: the user's row of table user_config, NoConfig when absent
  sentTweets,   \* part_002: table sent_tweets, in insertion order
  debugState,   \* part_002: the status object GET /debug returns
  state,        \* table state: handle -> last_seen_id, 0 when there is no row
  pollTimeout,  \* the module variable pollTimeout: a timer id, 0 for null
  timers,       \* the timers that are armed and have neither fired nor been cleared
  polls,        \* the invocations of poll(): their position and locals
  totalPolls,   \* number of invocations of poll() so far
  sent,         \* history: the calls of sendToWebhook, in call order: the invocation
                \* of poll(), the tweet id, config.webhookUrl and the result
  maxFetched,   \* history: per author key, the greatest id a fetch returned
  overlapped,   \* history: some poll() started while another was in flight
  storeFailed,  \* history: the store functions whose query was rejected
  stateFile,    \* part_003: lastSeenTweetId in the state file, 0 when there is none
  watcher,      \* part_003: the invocation of poll(client): position and locals
  recentTweets, \* part_004: the Set recentTweets, in insertion order
  response,     \* part_004: the last webhook request and the answer it got
  invoked,      \* part_004 history: the tweet ids passed to sendToOpenClaw, in order
  nextFresh,    \* part_004 history: the least tweet id not sent to the receiver yet
  openClaw,     \* part_004: what became of the commands sendToOpenClaw started, by
                \* position in invoked: completed without error, message appended
                \* to the log file; and whether the process ended on an exception
  transports,   \* part_001: the session ids with an open SSE connection
  sessions,     \* part_001: the object sessions: session id -> apiKey, "" when absent
  validatedApiKeys, \* part_001: the Set validatedApiKeys
  lastUsedApiKey,   \* part_001: the module variable lastUsedApiKey, "" for null
  validating,   \* part_001: per session, the key its authenticate call awaits on
  toolCall,     \* part_001: the last tool call and the key getApiKey gave it
  supplied,     \* part_001 history: per session, the keys its own calls carried
  storeCall,    \* the last direct call of a watermark store function and its result
  putResponse,  \* the status of the answer to the last PUT /config or PUT
                \* /handle-config made with a body, 0 for none
  mergeCall     \* part_004: the last call of deepMerge: arguments and results

\* the variables of the backend (index.js, part_002)
backendVars == <<config, handleConfigs, userConfig, sentTweets, debugState, state, pollTimeout, timers,
                 polls, totalPolls, sent, maxFetched, overlapped, storeFailed>>

\* the variables of the file-based watcher (part_003)
watcherVars == <<stateFile, watcher>>

\* the variables of the webhook receiver (part_004)
receiverVars == <<recentTweets, response, invoked, nextFresh, openClaw>>

\* the variables of the MCP server (part_001)
mcpVars == <<transports, sessions, validatedApiKeys, lastUsedApiKey, validating, toolCall, supplied>>

\* the variables of the calls made to single functions and of the requests
\* made with a body
callVars == <<storeCall, putResponse, mergeCall>>

\* the variables of the programs other than the backend
elsewhere == <<watcherVars, receiverVars, mcpVars, callVars>>

\* the variables of the programs other than the file-based watcher
notWatcher == <<backendVars, receiverVars, mcpVars, callVars>>

\* the variables of the programs other than the webhook receiver
notReceiver == <<backendVars, watcherVars, mcpVars, callVars>>

\* the variables of the programs other than the MCP server
notMcp == <<backendVars, watcherVars, receiverVars, callVars>>

vars == <<backendVars, elsewhere>>

\* ------------------------------------------------------------ pure helpers
Max(S) == IF S = {} THEN 0 ELSE CHOOSE m \in S : \A x \in S : x <= m

Min(S) == CHOOSE m \in S : \A x \in S : m <= x

\* the comparator with its arguments swapped: oldest first
RECURSIVE sortOldestFirst(_)
sortOldestFirst(S) ==
  IF S = {} THEN <<>> ELSE <<Min(S)>> \o sortOldestFirst(S \ {Min(S)})

\* authorTweets.sort((a, b) => b.id.localeCompare(a.id)): newest first
RECURSIVE sortNewestFirst(_)
sortNewestFirst(S) ==
  IF S = {} THEN <<>> ELSE <<Max(S)>> \o sortNewestFirst(S \ {Max(S)})

\* the send loop without the reverse(): newest first
notReversed(s) == s

\* Array.prototype.reverse
RECURSIVE reverse(_)
reverse(s) == IF s = <<>> THEN <<>> ELSE reverse(Tail(s)) \o <<Head(s)>>

\* the key under which the grouping loop files a tweet (NoAuthor: skipped)
authorKey(i) == IF AuthorOf(i) = NoAuthor THEN NoAuthor ELSE toLowerCase(AuthorOf(i))

\* byAuthor[author]: the fetched tweets filed under a key
byAuthor(tweets, author) == {i \in tweets : authorKey(i) = author}

\* Object.keys(byAuthor)
authorKeys(tweets) == {authorKey(i) : i \in tweets} \ {NoAuthor}

\* the orders in which Object.entries(byAuthor) may list the keys: the order
\* of first appearance in the fetched list, which the scraper decides
keyOrders(K) ==
  {s \in UNION {[1..n -> K] : n \in {Cardinality(K)}} :
     \A i, j \in DOMAIN s : i # j => s[i] # s[j]}

\* the filter with >= in place of >
newTweetsInclusive(authorTweets, lastSeenId) ==
  SelectSeq(authorTweets, LAMBDA i : i >= lastSeenId)

\* authorTweets.filter(t => t.id > lastSeenId), on the sorted array
newTweetsOf(authorTweets, lastSeenId) ==
  SelectSeq(authorTweets, LAMBDA i : i > lastSeenId)

\* ------------------------------------------------------- poll() invocations
NoConfig == [webhookUrl |-> "", handles |-> {}, pollIntervalMinutes |-> 0]

NotStarted ==
  [pc |-> "idle", config |-> NoConfig, tweets |-> {}, authors |-> <<>>,
   lastSeenId |-> 0, newTweets |-> <<>>, firstSeen |-> {},
   by |-> "", result |-> "",
   error |-> "none", wrote |-> FALSE, armed |-> FALSE]

Active(c) == polls[c].pc \notin {"idle", "done"}
ActivePolls == {c \in PollIds : Active(c)}

timerVars == <<pollTimeout, timers>>

\* what poll() leaves behind when it returns: the locals are gone
Returned(p, armed) ==
  [NotStarted EXCEPT !.pc = "done", !.error = p.error, !.wrote = p.wrote,
                     !.armed = armed]

\* the handle setTimeout returns: an object distinct from every live handle
newTimer == CHOOSE n \in 1..(MaxPolls + 1) :
              /\ n # pollTimeout
              /\ \A t \in timers : t.id # n
              /\ \A m \in 1..(n - 1) : m = pollTimeout \/ \E t \in timers : t.id = m

\* getConfig(): the row of table config, with the defaults for falsy columns
getConfig ==
  [webhookUrl |-> config.webhookUrl,
   handles |-> config.handles,
   pollIntervalMinutes |-> IF config.pollIntervalMinutes = 0 THEN DefaultInterval
                           ELSE config.pollIntervalMinutes]

\* clearTimeout(pollTimeout): a timer that fired or was cleared is not in timers
clearTimeout(ts) == {t \in ts : t.id # pollTimeout}

\* schedulePoll without its clearTimeout
schedulePollNoClear(c, p, intervalMinutes) ==
  /\ timers' = timers \cup {[id |-> newTimer, interval |-> intervalMinutes]}
  /\ pollTimeout' = newTimer
  /\ polls' = [polls EXCEPT ![c] = Returned(p, TRUE)]

\* schedulePoll(intervalMinutes), as the last statement of invocation c of
\* poll(), whose locals are p
schedulePoll(c, p, intervalMinutes) ==
  /\ timers' = clearTimeout(timers) \cup
                 {[id |-> newTimer, interval |-> intervalMinutes]}
  /\ pollTimeout' = newTimer
  /\ polls' = [polls EXCEPT ![c] = Returned(p, TRUE)]

\* the synchronous start of poll(): a new invocation, suspended at its
\* first await (getConfig); by is the caller
poll(by) ==
  /\ totalPolls < MaxPolls
  /\ totalPolls' = totalPolls + 1
  /\ polls' = [polls EXCEPT ![totalPolls + 1] = [NotStarted EXCEPT !.pc = "getConfig", !.by = by]]
  /\ overlapped' = (overlapped \/ ActivePolls # {})

\* restartPolling() without the clearTimeout
restartPollingNoClear(by) ==
  /\ UNCHANGED timerVars
  /\ poll(by)

\* restartPolling(): clear the pending timer and call poll()
restartPolling(by) ==
  /\ timers' = clearTimeout(timers)
  /\ UNCHANGED pollTimeout
  /\ poll(by)

\* the last element in place of the first
oldestId(authorTweets) == authorTweets[Len(authorTweets)]

\* authorTweets[0].id: the array is sorted newest first
newestId(authorTweets) == authorTweets[1]

\* the head of the loop over Object.entries(byAuthor): the next author, or
\* the end of the try block and the final schedulePoll
nextAuthor(c, p) ==
  IF Tail(p.authors) = <<>>
  THEN schedulePoll(c, p, p.config.pollIntervalMinutes)
  ELSE /\ polls' = [polls EXCEPT ![c] =
                      [p EXCEPT !.pc = "getLastSeenId", !.authors = Tail(p.authors),
                                !.lastSeenId = 0, !.newTweets = <<>>]]
       /\ UNCHANGED timerVars

\* ------------------------------------------------------------------ actions
\* a timer armed by schedulePoll fires: setTimeout(poll, intervalMs)
TimerFires ==
  /\ \E t \in timers : timers' = timers \ {t}
  /\ poll("timer")
  /\ UNCHANGED <<elsewhere, handleConfigs, debugState, config, userConfig, sentTweets, state, pollTimeout, sent, maxFetched, storeFailed>>

\* POST /poll
PostPoll ==
  /\ restartPolling("post")
  /\ UNCHANGED <<elsewhere, handleConfigs, debugState, config, userConfig, sentTweets, state, sent, maxFetched, storeFailed>>

\* PUT /config deleting the watermarks of the handles it removes
PutConfigForgetsRemoved ==
  /\ \E newConfig \in Configs :
       /\ config' = newConfig
       /\ state' = [h \in Names |-> IF h \in newConfig.handles THEN state[h] ELSE 0]
  /\ restartPolling("put")
  /\ UNCHANGED <<elsewhere, handleConfigs, debugState, userConfig, sentTweets, sent,
                 maxFetched, storeFailed>>

\* PUT /config with a body that passes validation: saveConfig, restartPolling
PutConfig ==
  /\ \E newConfig \in Configs : config' = newConfig
  /\ restartPolling("put")
  /\ UNCHANGED <<elsewhere, handleConfigs, debugState, userConfig, sentTweets, state, sent, maxFetched, storeFailed>>

\* poll() without the early return for an empty handle list
GetConfigNoEarlyReturn(c) ==
  /\ polls[c].pc = "getConfig"
  /\ polls' = [polls EXCEPT ![c] = [@ EXCEPT !.config = getConfig, !.pc = "fetch"]]
  /\ UNCHANGED <<elsewhere, handleConfigs, debugState, config, userConfig, sentTweets, state, timerVars, totalPolls, sent, maxFetched,
                 overlapped, storeFailed>>

\* poll(): const config = await getConfig(); the empty-handles early return
GetConfig(c) ==
  /\ polls[c].pc = "getConfig"
  /\ LET p == [polls[c] EXCEPT !.config = getConfig] IN
       IF p.config.handles = {}
       THEN schedulePoll(c, p, p.config.pollIntervalMinutes)
       ELSE /\ polls' = [polls EXCEPT ![c] = [p EXCEPT !.pc = "fetch"]]
            /\ UNCHANGED timerVars
  /\ UNCHANGED <<elsewhere, handleConfigs, debugState, config, userConfig, sentTweets, state, totalPolls, sent, maxFetched, overlapped, storeFailed>>

\* the catch block returning without the schedulePoll
FetchThrowsNoReschedule(c) ==
  /\ polls[c].pc = "fetch"
  /\ polls' = [polls EXCEPT ![c] = Returned([polls[c] EXCEPT !.error = "fetch"], FALSE)]
  /\ UNCHANGED <<elsewhere, handleConfigs, debugState, config, userConfig, sentTweets, state, timerVars, totalPolls, sent, maxFetched, overlapped,
                 storeFailed>>

\* await fetchLatestTweets(config.handles) throws: catch, schedulePoll
FetchThrows(c) ==
  /\ polls[c].pc = "fetch"
  /\ schedulePoll(c, [polls[c] EXCEPT !.error = "fetch"],
                  polls[c].config.pollIntervalMinutes)
  /\ UNCHANGED <<elsewhere, handleConfigs, debugState, config, userConfig, sentTweets, state, totalPolls, sent, maxFetched, overlapped, storeFailed>>

\* await fetchLatestTweets(config.handles) returns items; group by author
FetchReturns(c) ==
  /\ polls[c].pc = "fetch"
  /\ \E tweets \in SUBSET Ids :
       /\ Cardinality(tweets) <= MaxFetch
       /\ maxFetched' = [a \in Names |->
                           Max({maxFetched[a]} \cup byAuthor(tweets, a))]
       /\ IF authorKeys(tweets) = {}
          THEN schedulePoll(c, polls[c], polls[c].config.pollIntervalMinutes)
          ELSE /\ \E order \in keyOrders(authorKeys(tweets)) :
                    polls' = [polls EXCEPT ![c] =
                                [@ EXCEPT !.pc = "getLastSeenId", !.tweets = tweets,
                                          !.authors = order]]
               /\ UNCHANGED timerVars
  /\ UNCHANGED <<elsewhere, handleConfigs, debugState, config, userConfig, sentTweets, state, totalPolls, sent, overlapped, storeFailed>>

\* const lastSeenId = await getLastSeenId(author); the partition
GetLastSeenId(c) ==
  /\ polls[c].pc = "getLastSeenId"
  /\ LET p == polls[c]
         author == Head(p.authors)
         authorTweets == sortNewestFirst(byAuthor(p.tweets, author))
         lastSeenId == state[toLowerCase(author)]
         newTweets == newTweetsOf(authorTweets, lastSeenId)
     IN  IF lastSeenId = 0
         THEN /\ polls' = [polls EXCEPT ![c] =
                             [p EXCEPT !.pc = "setLastSeenIdFirst",
                                       !.firstSeen = @ \cup {author}]]
              /\ UNCHANGED timerVars
         ELSE IF Len(newTweets) > 0
         THEN /\ polls' = [polls EXCEPT ![c] =
                             [p EXCEPT !.pc = "getHandleConfig",
                                       !.lastSeenId = lastSeenId,
                                       !.newTweets = newTweets]]
              /\ UNCHANGED timerVars
         ELSE nextAuthor(c, [p EXCEPT !.lastSeenId = lastSeenId])
  /\ UNCHANGED <<elsewhere, handleConfigs, debugState, config, userConfig, sentTweets, state, totalPolls, sent, maxFetched, overlapped, storeFailed>>

\* the insert with ON CONFLICT DO NOTHING: an existing row is kept
setLastSeenIdInsertOnly(handle, tweetId) ==
  state' = [state EXCEPT ![toLowerCase(handle)] = IF @ = 0 THEN tweetId ELSE @]

\* the write without its WHERE handle = $1: every row takes the id
setLastSeenIdAllRows(handle, tweetId) ==
  state' = [h \in Names |-> tweetId]

\* setLastSeenId(handle, tweetId): the upsert
setLastSeenId(handle, tweetId) ==
  state' = [state EXCEPT ![toLowerCase(handle)] = tweetId]

\* first poll for the author: await setLastSeenId(author, authorTweets[0].id); continue
SetLastSeenIdFirst(c) ==
  /\ polls[c].pc = "setLastSeenIdFirst"
  /\ LET p == polls[c]
         author == Head(p.authors)
         authorTweets == sortNewestFirst(byAuthor(p.tweets, author))
     IN  /\ setLastSeenId(author, newestId(authorTweets))
         /\ nextAuthor(c, [p EXCEPT !.wrote = TRUE])
  /\ UNCHANGED <<elsewhere, handleConfigs, debugState, config, userConfig, sentTweets, totalPolls, sent, maxFetched, overlapped, storeFailed>>

\* const handleConfig = await getHandleConfig(author); newTweets.reverse()
GetHandleConfig(c) ==
  /\ polls[c].pc = "getHandleConfig"
  /\ polls' = [polls EXCEPT ![c] =
                 [@ EXCEPT !.pc = "send", !.newTweets = reverse(@)]]
  /\ UNCHANGED <<elsewhere, handleConfigs, debugState, config, userConfig, sentTweets, state, timerVars, totalPolls, sent, maxFetched,
                 overlapped, storeFailed>>

\* sendToWebhook(config, tweet, handleConfig) called without await: the
\* loop goes on to the next tweet, or to the write, with the request pending
SendToWebhookCallNoAwait(c) ==
  /\ polls[c].pc = "send"
  /\ sent' = Append(sent, [poll |-> c, id |-> Head(polls[c].newTweets),
                           url |-> polls[c].config.webhookUrl, result |-> "pending"])
  /\ polls' = [polls EXCEPT ![c] =
                 [@ EXCEPT !.newTweets = Tail(@),
                           !.pc = IF Tail(polls[c].newTweets) = <<>>
                                  THEN "setLastSeenId" ELSE "send"]]
  /\ UNCHANGED <<elsewhere, handleConfigs, debugState, config, userConfig, sentTweets, state,
                 timerVars, totalPolls, maxFetched, overlapped, storeFailed>>

\* the call sendToWebhook(config, tweet, handleConfig) for the next tweet
SendToWebhookCall(c) ==
  /\ polls[c].pc = "send"
  /\ sent' = Append(sent, [poll |-> c, id |-> Head(polls[c].newTweets),
                           url |-> polls[c].config.webhookUrl, result |-> "pending"])
  /\ polls' = [polls EXCEPT ![c].pc = "sending"]
  /\ UNCHANGED <<elsewhere, handleConfigs, debugState, config, userConfig, sentTweets, state, timerVars, totalPolls, maxFetched, overlapped,
                 storeFailed>>

\* the results sendToWebhook can resolve to: false without a webhook URL,
\* true on a 2xx answer, false on any other answer or a transport error
webhookResults(cfg) == IF cfg.webhookUrl = "" THEN {"failed"} ELSE {"ok", "failed"}

\* await sendToWebhook(...) resolves; newCount++; next tweet or the write
SendToWebhookReturn(c) ==
  /\ polls[c].pc = "sending"
  /\ \E r \in webhookResults(polls[c].config) :
       sent' = [i \in DOMAIN sent |->
                  IF sent[i].poll = c /\ sent[i].result = "pending"
                  THEN [sent[i] EXCEPT !.result = r] ELSE sent[i]]
  /\ polls' = [polls EXCEPT ![c] =
                 [@ EXCEPT !.newTweets = Tail(@),
                           !.pc = IF Tail(polls[c].newTweets) = <<>>
                                  THEN "setLastSeenId" ELSE "send"]]
  /\ UNCHANGED <<elsewhere, handleConfigs, debugState, config, userConfig, sentTweets, state, timerVars, totalPolls, maxFetched, overlapped,
                 storeFailed>>

\* the write made only when every send of the invocation succeeded
SetLastSeenIdIfAllSent(c) ==
  /\ polls[c].pc = "setLastSeenId"
  /\ LET p == polls[c]
         author == Head(p.authors)
         authorTweets == sortNewestFirst(byAuthor(p.tweets, author))
     IN  /\ IF \E i \in DOMAIN sent : sent[i].poll = c /\ sent[i].result = "failed"
            THEN state' = state
            ELSE setLastSeenId(author, newestId(authorTweets))
         /\ nextAuthor(c, [p EXCEPT !.wrote = TRUE])
  /\ UNCHANGED <<elsewhere, handleConfigs, debugState, config, userConfig, sentTweets, totalPolls, sent, maxFetched, overlapped, storeFailed>>

\* await setLastSeenId(author, authorTweets[0].id) after the send loop
SetLastSeenIdNewest(c) ==
  /\ polls[c].pc = "setLastSeenId"
  /\ LET p == polls[c]
         author == Head(p.authors)
         authorTweets == sortNewestFirst(byAuthor(p.tweets, author))
     IN  /\ setLastSeenId(author, newestId(authorTweets))
         /\ nextAuthor(c, [p EXCEPT !.wrote = TRUE])
  /\ UNCHANGED <<elsewhere, handleConfigs, debugState, config, userConfig, sentTweets, totalPolls, sent, maxFetched, overlapped, storeFailed>>

\* the store function an invocation is waiting for, "" when it is not
awaitedQuery(p) ==
  CASE p.pc = "getLastSeenId" -> "getLastSeenId"
    [] p.pc = "setLastSeenIdFirst" -> "setLastSeenId"
    [] p.pc = "setLastSeenId" -> "setLastSeenId"
    [] p.pc = "getHandleConfig" -> "getHandleConfig"
    [] OTHER -> ""

\* pool.query rejects inside the try block: catch, schedulePoll
StoreError(c) ==
  /\ awaitedQuery(polls[c]) # ""
  /\ storeFailed' = storeFailed \cup {awaitedQuery(polls[c])}
  /\ schedulePoll(c, [polls[c] EXCEPT !.error = "store"],
                  polls[c].config.pollIntervalMinutes)
  /\ UNCHANGED <<elsewhere, handleConfigs, debugState, config, userConfig, sentTweets, state, totalPolls, sent, maxFetched, overlapped>>

\* await getConfig() rejects: the await is before the try block, so the
\* rejection leaves poll() without reaching the catch and its schedulePoll
GetConfigThrows(c) ==
  /\ polls[c].pc = "getConfig"
  /\ polls' = [polls EXCEPT ![c] = Returned([polls[c] EXCEPT !.error = "config"], FALSE)]
  /\ UNCHANGED <<elsewhere, handleConfigs, debugState, config, userConfig, sentTweets, state, timerVars, totalPolls, sent, maxFetched,
                 overlapped, storeFailed>>

\* ------------------------------------------- PUT /config with its body
\* the values of body.webhookUrl: absent, a string, or a number
WebhookUrlInputs ==
  {[type |-> "undefined", str |-> ""], [type |-> "string", str |-> "http://hook"],
   [type |-> "number", str |-> "5"]}

\* the values of body.handles: absent, an array of handles, or a string
HandlesInputs ==
  {[type |-> "undefined", items |-> {}], [type |-> "array", items |-> {"alice"}],
   [type |-> "string", items |-> {}]}

\* the values of body.pollIntervalMinutes, as the characters of String(v):
\* absent, 0, 1, 30, 1440, 1441, 1.5, "30m", "m"
IntervalInputs ==
  {<<>>, <<"0">>, <<"1">>, <<"3", "0">>, <<"1", "4", "4", "0">>, <<"1", "4", "4", "1">>,
   <<"1", ".", "5">>, <<"3", "0", "m">>, <<"m">>}

PutBodies ==
  [webhookUrl : WebhookUrlInputs, handles : HandlesInputs,
   pollIntervalMinutes : IntervalInputs]

isDigit(ch) == ch \in {"0", "1", "2", "3", "4", "5", "6", "7", "8", "9"}

digitValue(ch) ==
  CASE ch = "0" -> 0 [] ch = "1" -> 1 [] ch = "2" -> 2 [] ch = "3" -> 3 [] ch = "4" -> 4
    [] ch = "5" -> 5 [] ch = "6" -> 6 [] ch = "7" -> 7 [] ch = "8" -> 8 [] OTHER -> 9

\* the value of the digits at the start of str, read after the digits
\* whose value is acc
RECURSIVE leadingDigits(_, _)
leadingDigits(str, acc) ==
  IF str = <<>> \/ ~isDigit(Head(str)) THEN acc
  ELSE leadingDigits(Tail(str), 10 * acc + digitValue(Head(str)))

\* parseInt(v): the integer the longest prefix of digits of String(v)
\* denotes, NaN when there is no such prefix
parseInt(str) ==
  IF str = <<>> \/ ~isDigit(Head(str)) THEN [nan |-> TRUE, n |-> 0]
  ELSE [nan |-> FALSE, n |-> leadingDigits(str, 0)]

\* body.x ?? currentConfig.x for the three fields, before validation
mergedConfig(body) ==
  [webhookUrl |-> IF body.webhookUrl.type = "undefined"
                  THEN [type |-> "string", str |-> getConfig.webhookUrl]
                  ELSE body.webhookUrl,
   handles |-> IF body.handles.type = "undefined"
               THEN [type |-> "array", items |-> getConfig.handles]
               ELSE body.handles,
   interval |-> IF body.pollIntervalMinutes = <<>>
                THEN parseInt(<<>>) @@ [cur |-> TRUE]
                ELSE parseInt(body.pollIntervalMinutes) @@ [cur |-> FALSE]]

\* the three checks of the handler; the current interval, when the body has
\* none, is the integer getConfig returned
passesValidation(body) ==
  LET new == mergedConfig(body)
      interval == IF new.interval.cur THEN getConfig.pollIntervalMinutes
                  ELSE new.interval.n IN
  /\ new.webhookUrl.type = "string"
  /\ new.handles.type = "array"
  /\ new.interval.cur \/ ~new.interval.nan
  /\ interval >= MinInterval /\ interval <= MaxInterval

\* PUT /config with body: a failed check throws into the handler's catch,
\* which answers 400; else saveConfig, restartPolling and the answer 200
PutConfigBody(body) ==
  /\ IF passesValidation(body)
     THEN LET new == mergedConfig(body) IN
          /\ config' = [webhookUrl |-> new.webhookUrl.str,
                        handles |-> new.handles.items,
                        pollIntervalMinutes |->
                          IF new.interval.cur THEN getConfig.pollIntervalMinutes
                          ELSE new.interval.n]
          /\ restartPolling("put")
          /\ putResponse' = 200
     ELSE /\ putResponse' = 400
          /\ UNCHANGED <<config, timerVars, polls, totalPolls, overlapped>>
  /\ UNCHANGED <<watcherVars, receiverVars, mcpVars, storeCall, mergeCall, handleConfigs, debugState,
                 userConfig, sentTweets, state, sent, maxFetched, storeFailed>>

\* ------------------------------------------------- the watermark store
\* no store function called yet
NoStoreCall == [op |-> "", handle |-> "", id |-> 0, result |-> 0]

\* the select with the handle as given, not lower-cased
getLastSeenIdAsGiven(handle) == state[handle]

\* getLastSeenId(handle): last_seen_id of the row of handle.toLowerCase(),
\* null (0) when there is no row
getLastSeenId(handle) == state[toLowerCase(handle)]

\* a call of setLastSeenId(handle, tweetId) on the store
StoreSet(handle, tweetId) ==
  /\ setLastSeenId(handle, tweetId)
  /\ storeCall' = [op |-> "set", handle |-> handle, id |-> tweetId, result |-> 0]
  /\ UNCHANGED <<watcherVars, receiverVars, mcpVars, putResponse, mergeCall, config, handleConfigs,
                 userConfig, sentTweets, debugState, pollTimeout, timers, polls, totalPolls,
                 sent, maxFetched, overlapped, storeFailed>>

\* a call of getLastSeenId(handle) on the store
StoreGet(handle) ==
  /\ storeCall' = [op |-> "get", handle |-> handle, id |-> 0,
                   result |-> getLastSeenId(handle)]
  /\ UNCHANGED <<backendVars, watcherVars, receiverVars, mcpVars, putResponse, mergeCall>>

NextStore ==
  \/ \E handle \in Names : \E tweetId \in Ids : StoreSet(handle, tweetId)
  \/ \E handle \in Names : StoreGet(handle)

\* ------------------------------------------------- per-handle policies
\* no row of table handle_config
NoRow == [handle |-> "", mode |-> "", prompt |-> "", channel |-> ""]

\* the bodies of PUT /handle-config/:handle that pass validation: an empty
\* one (mode, prompt and channel undefined, "" here) and one with a mode
\* and a prompt
Bodies ==
  {[mode |-> "", prompt |-> "", channel |-> ""],
   [mode |-> "next-heartbeat", prompt |-> "summarize", channel |-> ""]}

\* the handles the /handle-config requests of the model name in their
\* path: one account, in two spellings
PathHandles == {"Alice", "alice"}

\* getHandleConfig returning rows[0] also when there is no row
getHandleConfigNoDefault(handle) == handleConfigs[toLowerCase(handle)]

\* getHandleConfig(handle): the row, or the default policy when there is none
getHandleConfig(handle) ==
  IF handleConfigs[toLowerCase(handle)] = NoRow
  THEN [handle |-> toLowerCase(handle), mode |-> "now", prompt |-> "", channel |-> ""]
  ELSE handleConfigs[toLowerCase(handle)]

\* setHandleConfig(handle, config): the upsert, with the defaults for
\* falsy fields
setHandleConfig(handle, body) ==
  [handleConfigs EXCEPT ![toLowerCase(handle)] =
     [handle |-> toLowerCase(handle),
      mode |-> IF body.mode = "" THEN "now" ELSE body.mode,
      prompt |-> body.prompt,
      channel |-> body.channel]]

\* deleteHandleConfig(handle): DELETE ... WHERE handle = lower-cased handle
deleteHandleConfig(handle) ==
  [handleConfigs EXCEPT ![toLowerCase(handle)] = NoRow]

\* PUT /handle-config/:handle with a valid body
PutHandleConfig(handle, body) ==
  /\ handleConfigs' = setHandleConfig(handle, body)
  /\ UNCHANGED <<elsewhere, config, userConfig, sentTweets, debugState, state, pollTimeout,
                 timers, polls, totalPolls, sent, maxFetched, overlapped, storeFailed>>

\* a field the body of a request has not
Absent == "<absent>"

\* the bodies of PUT /handle-config/:handle: each field absent or a string
PolicyBodies ==
  [mode : {Absent, "", "now", "next-heartbeat", "later"},
   prompt : {Absent, "summarize"},
   channel : {Absent, "telegram"}]

\* a value that is undefined or the empty string is falsy
falsy(x) == x \in {Absent, ""}

\* PUT /handle-config/:handle with body: a mode that is truthy and not one
\* of the two modes is answered 400; else setHandleConfig with the three
\* fields of the body, and the answer 200
PutHandleConfigBody(handle, body) ==
  /\ IF ~falsy(body.mode) /\ body.mode \notin {"now", "next-heartbeat"}
     THEN /\ putResponse' = 400
          /\ UNCHANGED handleConfigs
     ELSE /\ handleConfigs' =
               setHandleConfig(handle,
                 [mode |-> IF falsy(body.mode) THEN "" ELSE body.mode,
                  prompt |-> IF falsy(body.prompt) THEN "" ELSE body.prompt,
                  channel |-> IF falsy(body.channel) THEN "" ELSE body.channel])
          /\ putResponse' = 200
  /\ UNCHANGED <<watcherVars, receiverVars, mcpVars, storeCall, mergeCall, config, userConfig,
                 sentTweets, debugState, state, pollTimeout, timers, polls, totalPolls, sent,
                 maxFetched, overlapped, storeFailed>>

\* DELETE /handle-config/:handle
DeleteHandleConfig(handle) ==
  /\ handleConfigs' = deleteHandleConfig(handle)
  /\ UNCHANGED <<elsewhere, config, userConfig, sentTweets, debugState, state, pollTimeout,
                 timers, polls, totalPolls, sent, maxFetched, overlapped, storeFailed>>

\* the requests that write table handle_config, with any body
NextPolicyBody ==
  \/ \E handle \in Names : \E body \in PolicyBodies : PutHandleConfigBody(handle, body)
  \/ \E handle \in Names : DeleteHandleConfig(handle)

\* -------------------------------------- the backend with users (part_002)
\* the synchronous start of poll(): debugState.lastPollAttempt = now (the
\* model's time stamp of a cycle is its number), totalPolls++
pollUsers(by) ==
  /\ poll(by)
  /\ debugState' = [debugState EXCEPT !.lastPollAttempt = totalPolls + 1]

\* restartPolling(): clear the pending timer and call poll()
restartPollingUsers(by) ==
  /\ timers' = clearTimeout(timers)
  /\ UNCHANGED pollTimeout
  /\ pollUsers(by)

\* PUT /config with valid handles: saveUserConfig(userId, newConfig) writes
\* the user's row of table user_config, then restartPolling()
PutUserConfig ==
  /\ \E newConfig \in Configs : userConfig' = newConfig
  /\ restartPollingUsers("put")
  /\ UNCHANGED <<elsewhere, handleConfigs, config, sentTweets, state, sent, maxFetched, storeFailed>>

\* a timer armed by schedulePoll fires
TimerFiresUsers ==
  /\ \E t \in timers : timers' = timers \ {t}
  /\ pollUsers("timer")
  /\ UNCHANGED <<elsewhere, handleConfigs, config, userConfig, sentTweets, state, pollTimeout, sent, maxFetched,
                 storeFailed>>

\* POST /poll
PostPollUsers ==
  /\ restartPollingUsers("post")
  /\ UNCHANGED <<elsewhere, handleConfigs, config, userConfig, sentTweets, state, sent, maxFetched, storeFailed>>

\* await fetchLatestTweets(config.handles) throws: the catch block records
\* err.message in debugState.lastPollError, then schedulePoll
FetchThrowsUsers(c) ==
  /\ polls[c].pc = "fetch"
  /\ debugState' = [debugState EXCEPT !.lastPollError = "fetch"]
  /\ schedulePoll(c, [polls[c] EXCEPT !.error = "fetch"],
                  polls[c].config.pollIntervalMinutes)
  /\ UNCHANGED <<elsewhere, handleConfigs, config, userConfig, sentTweets, state, totalPolls, sent, maxFetched,
                 overlapped, storeFailed>>

\* the fetch recording its success also when the list it returns is empty
\* is left out: lastPollSuccess only for a fetch with items
debugStateOnItemsOnly(c, tweets) ==
  IF tweets = {} THEN debugState
  ELSE [debugState EXCEPT !.lastPollSuccess = c, !.lastPollError = "null"]

\* debugState.lastPollSuccess = now; debugState.lastPollError = null
debugStateOnFetch(c, tweets) ==
  [debugState EXCEPT !.lastPollSuccess = c, !.lastPollError = "null"]

\* await fetchLatestTweets(config.handles) returns: lastPollSuccess and
\* lastPollError are set, then the items are grouped by author
FetchReturnsUsers(c) ==
  /\ polls[c].pc = "fetch"
  /\ \E tweets \in SUBSET Ids :
       /\ Cardinality(tweets) <= MaxFetch
       /\ debugState' = debugStateOnFetch(c, tweets)
       /\ maxFetched' = [a \in Names |->
                           Max({maxFetched[a]} \cup byAuthor(tweets, a))]
       /\ IF authorKeys(tweets) = {}
          THEN schedulePoll(c, polls[c], polls[c].config.pollIntervalMinutes)
          ELSE /\ \E order \in keyOrders(authorKeys(tweets)) :
                    polls' = [polls EXCEPT ![c] =
                                [@ EXCEPT !.pc = "getLastSeenId", !.tweets = tweets,
                                          !.authors = order]]
               /\ UNCHANGED timerVars
  /\ UNCHANGED <<elsewhere, handleConfigs, config, userConfig, sentTweets, state, totalPolls, sent, overlapped,
                 storeFailed>>

\* debugState.lastPollError = err.message, for the rejected store query
debugStateOnError(query) == [debugState EXCEPT !.lastPollError = "store"]

\* pool.query rejects inside the try block: the catch block records
\* err.message in debugState.lastPollError, then schedulePoll
StoreErrorUsers(c) ==
  /\ awaitedQuery(polls[c]) # ""
  /\ storeFailed' = storeFailed \cup {awaitedQuery(polls[c])}
  /\ debugState' = debugStateOnError(awaitedQuery(polls[c]))
  /\ schedulePoll(c, [polls[c] EXCEPT !.error = "store"],
                  polls[c].config.pollIntervalMinutes)
  /\ UNCHANGED <<elsewhere, handleConfigs, config, userConfig, sentTweets, state, totalPolls, sent, maxFetched,
                 overlapped>>

\* what await sendToWebhook(...) resolving to r leaves in invocation c:
\* newCount++, then the next tweet or the write
sendToWebhookResolves(c, r) ==
  /\ sent' = [i \in DOMAIN sent |->
                IF sent[i].poll = c /\ sent[i].result = "pending"
                THEN [sent[i] EXCEPT !.result = r] ELSE sent[i]]
  /\ polls' = [polls EXCEPT ![c] =
                 [@ EXCEPT !.newTweets = Tail(@), !.result = "",
                           !.pc = IF Tail(polls[c].newTweets) = <<>>
                                  THEN "setLastSeenId" ELSE "send"]]

\* sendToWebhook without a webhook URL: return false before any request
SendToWebhookNoUrl(c) ==
  /\ polls[c].pc = "sending"
  /\ polls[c].config.webhookUrl = ""
  /\ sendToWebhookResolves(c, "failed")
  /\ UNCHANGED <<elsewhere, handleConfigs, debugState, config, userConfig, sentTweets, state, timerVars, totalPolls, maxFetched,
                 overlapped, storeFailed>>

\* sendToWebhook without its catch: a failed request rejects the await in
\* poll(), whose catch block ends the cycle
WebhookRespondsThrows(c) ==
  /\ polls[c].pc = "sending"
  /\ polls[c].config.webhookUrl # ""
  /\ \/ /\ polls' = [polls EXCEPT ![c] = [@ EXCEPT !.pc = "logging", !.result = "ok"]]
        /\ UNCHANGED <<timerVars, sent>>
     \/ /\ sent' = [i \in DOMAIN sent |->
                      IF sent[i].poll = c /\ sent[i].result = "pending"
                      THEN [sent[i] EXCEPT !.result = "failed"] ELSE sent[i]]
        /\ schedulePoll(c, [polls[c] EXCEPT !.error = "send"],
                        polls[c].config.pollIntervalMinutes)
  /\ UNCHANGED <<elsewhere, handleConfigs, debugState, config, userConfig, sentTweets, state, totalPolls, maxFetched,
                 overlapped, storeFailed>>

\* await fetch(config.webhookUrl, ...) settles: a 2xx answer, or a throw
\* (another status, a transport error) into the catch block
WebhookResponds(c) ==
  /\ polls[c].pc = "sending"
  /\ polls[c].config.webhookUrl # ""
  /\ \E r \in {"ok", "failed"} :
       polls' = [polls EXCEPT ![c] = [@ EXCEPT !.pc = "logging", !.result = r]]
  /\ UNCHANGED <<elsewhere, handleConfigs, debugState, config, userConfig, sentTweets, state, timerVars, totalPolls, sent, maxFetched,
                 overlapped, storeFailed>>

\* the insert with the parameter's default in place of the status passed
logSentTweetDefaultStatus(tweetId, status) ==
  Append(sentTweets, [tweet_id |-> tweetId, status |-> "sent"])

\* logSentTweet(tweet, handleConfig, formattedMessage, status): the insert
logSentTweet(tweetId, status) ==
  Append(sentTweets, [tweet_id |-> tweetId, status |-> status])

\* await logSentTweet(..., 'sent' | 'failed') settles, the insert done or
\* its error caught inside logSentTweet; sendToWebhook returns
LogSentTweet(c) ==
  /\ polls[c].pc = "logging"
  /\ LET status == IF polls[c].result = "ok" THEN "sent" ELSE "failed" IN
       \/ sentTweets' = logSentTweet(Head(polls[c].newTweets), status)
       \/ sentTweets' = sentTweets
  /\ sendToWebhookResolves(c, polls[c].result)
  /\ UNCHANGED <<elsewhere, handleConfigs, debugState, config, userConfig, state, timerVars, totalPolls, maxFetched, overlapped,
                 storeFailed>>

\* ------------------------------------- the file-based watcher (part_003)
\* poll(client) is not running
WatcherIdle ==
  [pc |-> "idle", lastSeenTweetId |-> 0, tweets |-> <<>>, newTweets |-> <<>>,
   failed |-> FALSE]

\* state.lastSeenTweetId = tweets[0].id; saveState(state); return.
\* writeFileSync either writes the file or throws, and saveState catches
\* the error and prints it
saveState(w, tweetId) ==
  \E written \in BOOLEAN :
    /\ stateFile' = IF written THEN tweetId ELSE stateFile
    /\ watcher' = [WatcherIdle EXCEPT !.failed = w.failed \/ ~written]

\* main() or the setInterval callback calls poll(client): loadState(), then
\* the await of the fetch. Reading an existing file may throw (unreadable,
\* not JSON): loadState catches, prints and returns the empty state
WatcherPoll ==
  /\ watcher.pc = "idle"
  /\ \E read \in BOOLEAN :
       /\ read \/ stateFile # 0
       /\ watcher' = [WatcherIdle EXCEPT
                        !.pc = "fetch",
                        !.lastSeenTweetId = IF read THEN stateFile ELSE 0,
                        !.failed = ~read]
  /\ UNCHANGED <<notWatcher, stateFile>>

\* await fetchLatestTweets(...) throws: the catch block prints the error
WatcherFetchThrows ==
  /\ watcher.pc = "fetch"
  /\ watcher' = [WatcherIdle EXCEPT !.failed = watcher.failed]
  /\ UNCHANGED <<notWatcher, stateFile>>

\* the no-new-tweets branch: state.lastSeenTweetId = tweets[0].id
newestFetched(tweets, lastSeenTweetId) == tweets[1]

\* await fetchLatestTweets(...) returns: sort newest first, the first-run
\* branch, the filter by id and by age (tooOld: the items whose createdAt is
\* more than two intervals ago), the no-new-tweets branch, newTweets.reverse()
WatcherFetchReturns ==
  /\ watcher.pc = "fetch"
  /\ \E items \in SUBSET Ids : \E tooOld \in SUBSET items :
       LET tweets == sortNewestFirst(items)
           newTweets == SelectSeq(tweets, LAMBDA i :
                          i > watcher.lastSeenTweetId /\ i \notin tooOld)
       IN  /\ Cardinality(items) <= MaxFetch
           /\ IF items = {}
              THEN /\ watcher' = [WatcherIdle EXCEPT !.failed = watcher.failed]
                   /\ UNCHANGED stateFile
              ELSE IF watcher.lastSeenTweetId = 0
              THEN saveState(watcher, tweets[1])
              ELSE IF newTweets = <<>>
              THEN saveState(watcher, newestFetched(tweets, watcher.lastSeenTweetId))
              ELSE /\ watcher' = [watcher EXCEPT !.pc = "send", !.tweets = tweets,
                                                 !.newTweets = reverse(newTweets)]
                   /\ UNCHANGED stateFile
  /\ UNCHANGED notWatcher

\* await sendToWebhook(tweet) resolves (it catches its own errors); after
\* the last one: state.lastSeenTweetId = tweets[0].id; saveState(state)
WatcherSendToWebhook ==
  /\ watcher.pc = "send"
  /\ IF Tail(watcher.newTweets) = <<>>
     THEN saveState(watcher, watcher.tweets[1])
     ELSE /\ watcher' = [watcher EXCEPT !.newTweets = Tail(@)]
          /\ UNCHANGED stateFile
  /\ UNCHANGED notWatcher

NextWatcher ==
  \/ WatcherPoll
  \/ WatcherFetchThrows
  \/ WatcherFetchReturns
  \/ WatcherSendToWebhook

\* --------------------------------------- the webhook receiver (part_004)
\* no request answered yet
NoResponse == [id |-> 0, status |-> 0, duplicate |-> FALSE]

\* recentTweets.has(id)
has(set, id) == \E k \in DOMAIN set : set[k] = id

\* the cut deleting the value inserted last before the new one
addRecentEvictsNewest(set, id) ==
  IF Len(set) + 1 > MaxRecent
  THEN Append(SubSeq(set, 1, Len(set) - 1), id)
  ELSE Append(set, id)

\* the cut with >= in place of >
addRecentOffByOne(set, id) ==
  IF Len(set) + 1 >= MaxRecent THEN Tail(Append(set, id)) ELSE Append(set, id)

\* recentTweets.add(tweet.id); if (recentTweets.size > 100) delete the
\* first value of the Set, the one inserted earliest
addRecent(set, id) ==
  IF Len(set) + 1 > MaxRecent THEN Tail(Append(set, id)) ELSE Append(set, id)

\* the duplicate branch going on to the agent all the same
duplicateStillInvokes(id) ==
  /\ response' = [id |-> id, status |-> 200, duplicate |-> TRUE]
  /\ invoked' = Append(invoked, id)
  /\ UNCHANGED <<recentTweets, openClaw>>

\* the Dedupe branch: answer { success: true, duplicate: true } and return
duplicate(id) ==
  /\ response' = [id |-> id, status |-> 200, duplicate |-> TRUE]
  /\ UNCHANGED <<recentTweets, invoked, openClaw>>

\* the tweet ids of the requests the model sends: the next id never sent
\* before, or a redelivery of the first, the second or the latest id
Deliveries == {nextFresh} \cup ({1, 2, nextFresh - 1} \cap 1..(nextFresh - 1))

\* POST /webhook with { event: 'new_tweet', tweet: { id, ... } }
WebhookNewTweet(id) ==
  /\ id <= MaxWebhookId
  /\ nextFresh' = IF id = nextFresh THEN nextFresh + 1 ELSE nextFresh
  /\ IF has(recentTweets, id)
     THEN duplicate(id)
     ELSE /\ recentTweets' = addRecent(recentTweets, id)
          /\ invoked' = Append(invoked, id)
          /\ response' = [id |-> id, status |-> 200, duplicate |-> FALSE]
          /\ UNCHANGED openClaw
  /\ UNCHANGED notReceiver

\* POST /webhook with another event, or without a tweet: { success: true }
WebhookOtherEvent ==
  /\ response' = [id |-> 0, status |-> 200, duplicate |-> FALSE]
  /\ UNCHANGED <<notReceiver, recentTweets, invoked, nextFresh, openClaw>>

\* POST /webhook with a body that is not JSON: the catch answers 400
WebhookBadBody ==
  /\ response' = [id |-> 0, status |-> 400, duplicate |-> FALSE]
  /\ UNCHANGED <<notReceiver, recentTweets, invoked, nextFresh, openClaw>>

NextReceiver ==
  \/ \E id \in Deliveries : WebhookNewTweet(id)
  \/ WebhookOtherEvent
  \/ WebhookBadBody

\* no command started by sendToOpenClaw has ended
NoExec == [completed |-> {}, logged |-> {}, crashed |-> FALSE]

\* the commands started whose callback has not run
pendingExec == (DOMAIN invoked) \ (openClaw.completed \cup openClaw.logged)

\* the callback of exec(cmd, ...) for the k-th call of sendToOpenClaw, the
\* command having ended: without error it logs "Sent"; with an error it
\* appends the message to the log file with fs.appendFileSync, and an
\* exception of that call leaves the callback uncaught and ends the process
ExecCallback(k, error, appendThrows) ==
  /\ ~openClaw.crashed
  /\ k \in pendingExec
  /\ openClaw' =
       IF ~error THEN [openClaw EXCEPT !.completed = @ \cup {k}]
       ELSE IF ~appendThrows THEN [openClaw EXCEPT !.logged = @ \cup {k}]
       ELSE [openClaw EXCEPT !.crashed = TRUE]
  /\ UNCHANGED <<notReceiver, recentTweets, response, invoked, nextFresh>>

\* some command sendToOpenClaw started ends, and its callback runs
ExecEnds ==
  \E k \in 1..MaxExec : \E error, appendThrows \in BOOLEAN :
    ExecCallback(k, error, appendThrows)

\* the receiver while its process runs, with the callbacks of the commands
\* it started
NextOpenClaw ==
  \/ /\ ~openClaw.crashed
     /\ Len(invoked) < MaxExec
     /\ \E id \in Deliveries : WebhookNewTweet(id)
  \/ ExecEnds

\* ---------------------------------------------------- deepMerge (part_004)
\* JSON values: an absent key, a number, an empty array, or an object, the
\* last with the value of each of its own keys (Undefined for a key it has not)
Undefined == [t |-> "undefined", v |-> <<>>]
Scalar == [t |-> "scalar", v |-> <<>>]
Array == [t |-> "array", v |-> <<>>]

\* the keys of the objects: an ordinary key and the key JSON.parse creates
\* as an own property while an assignment to it goes to the prototype
MergeKeys == {"a", "__proto__"}

EmptyObject == [t |-> "object", v |-> [k \in MergeKeys |-> Undefined]]

RECURSIVE JsonValues(_)
JsonValues(depth) ==
  IF depth = 0 THEN {Undefined, Scalar, Array}
  ELSE {Undefined, Scalar, Array} \cup
       {[t |-> "object", v |-> f] : f \in [MergeKeys -> JsonValues(depth - 1)]}

JsonObjects(depth) == {x \in JsonValues(depth) : x.t = "object"}

\* { ...x } for the x of result[key] || {}: the own keys of an object, no
\* key for a number, for an empty array, for no value, for Object.prototype
spread(x) == IF x.t = "object" THEN x ELSE EmptyObject

\* deepMerge(target, source), the keys of source taken in its own order:
\* protoFirst says that "__proto__" comes before "a". result is a copy of
\* target's own keys. For a key result has as an own property, the read
\* result[key] and the assignment result[key] = ... are those of a data
\* property. For "__proto__" when result has no such own property they are
\* the accessor of Object.prototype: the read gives Object.prototype, the
\* assignment of an object or an array makes it the prototype of result and
\* that of a number does nothing, and no own key is created; a later read of
\* a key result has not is answered by the new prototype.
RECURSIVE deepMerge(_, _, _)
deepMerge(target, source, protoFirst) ==
  LET ownProto == target.v["__proto__"] # Undefined
      sp == source.v["__proto__"]
      sa == source.v["a"]
      prototype ==
        IF ownProto \/ sp.t \in {"undefined", "scalar"} THEN EmptyObject
        ELSE IF sp.t = "object" THEN deepMerge(EmptyObject, sp, protoFirst)
        ELSE sp
      readA ==
        IF target.v["a"] # Undefined THEN target.v["a"]
        ELSE IF protoFirst /\ prototype.t = "object" THEN prototype.v["a"]
        ELSE Undefined
  IN  [t |-> "object",
       v |-> [k \in MergeKeys |->
                IF k = "a"
                THEN IF sa = Undefined THEN target.v["a"]
                     ELSE IF sa.t = "object" THEN deepMerge(spread(readA), sa, protoFirst)
                     ELSE sa
                ELSE IF ~ownProto \/ sp = Undefined THEN target.v["__proto__"]
                     ELSE IF sp.t = "object"
                          THEN deepMerge(spread(target.v["__proto__"]), sp, protoFirst)
                          ELSE sp]]

\* no call of deepMerge yet
NoMerge ==
  [target |-> Undefined, source |-> Undefined, protoFirst |-> FALSE,
   result |-> Undefined, again |-> Undefined,
   targetAfter |-> Undefined, sourceAfter |-> Undefined]

\* const merged = deepMerge(config, patch) for two parsed JSON objects,
\* followed by a second merge of the same patch into the result; the
\* function assigns to its local result only, so the arguments are after
\* the call what they were before it
Merge(target, source, protoFirst) ==
  /\ mergeCall' =
       [target |-> target, source |-> source, protoFirst |-> protoFirst,
        result |-> deepMerge(target, source, protoFirst),
        again |-> deepMerge(deepMerge(target, source, protoFirst), source, protoFirst),
        targetAfter |-> target, sourceAfter |-> source]
  /\ UNCHANGED <<backendVars, watcherVars, receiverVars, mcpVars, storeCall, putResponse>>

NextMerge ==
  /\ mergeCall = NoMerge
  /\ \E target, source \in JsonObjects(MergeDepth) : \E protoFirst \in BOOLEAN :
       Merge(target, source, protoFirst)

\* ------------------------------------------------- the MCP server (part_001)
\* the session ids of the SSE connections
SessionIds == 1..MaxSession

\* the API keys clients send, and those GET /config of the backend accepts
ApiKeys == {"pk_a", "pk_bad"}
ValidKeys == {"pk_a"}

\* no tool call made yet
NoToolCall == [session |-> 0, param |-> "", key |-> ""]

\* getApiKey(sessionId, paramApiKey): the key it returns, "" for null
getApiKey(sessionId, paramApiKey) ==
  IF paramApiKey # "" THEN paramApiKey
  ELSE IF sessions[sessionId] # "" THEN sessions[sessionId]
  ELSE IF lastUsedApiKey # "" /\ lastUsedApiKey \in validatedApiKeys THEN lastUsedApiKey
  ELSE ""

\* GET /sse: a new transport with a session id no connection had before
\* (the model uses an id again once nothing of its last connection is left)
Connect(s) ==
  /\ s \notin transports
  /\ sessions[s] = "" /\ validating[s] = ""
  /\ supplied[s] = {}
  /\ transports' = transports \cup {s}
  /\ UNCHANGED <<notMcp, sessions, validatedApiKeys, lastUsedApiKey, validating, toolCall, supplied>>

\* res.on("close"): the transport and the session's entry are deleted; the
\* history of the session ends with it
Close(s) ==
  /\ s \in transports
  /\ transports' = transports \ {s}
  /\ sessions' = [sessions EXCEPT ![s] = ""]
  /\ supplied' = [supplied EXCEPT ![s] = {}]
  /\ UNCHANGED <<notMcp, validatedApiKeys, lastUsedApiKey, validating, toolCall>>

\* tool authenticate, up to the await of validateApiKey(api_key)
Authenticate(s, k) ==
  /\ s \in transports
  /\ validating[s] = ""
  /\ validating' = [validating EXCEPT ![s] = k]
  /\ supplied' = [supplied EXCEPT ![s] = @ \cup {k}]
  /\ UNCHANGED <<notMcp, transports, sessions, validatedApiKeys, lastUsedApiKey, toolCall>>

\* validateApiKey answered true (the key is cached, or GET /config had no
\* error): the key is stored in the session and in the module variables
AuthenticateValid(s) ==
  /\ validating[s] # ""
  /\ validating[s] \in validatedApiKeys \cup ValidKeys
  /\ sessions' = [sessions EXCEPT ![s] = validating[s]]
  /\ lastUsedApiKey' = validating[s]
  /\ validatedApiKeys' = validatedApiKeys \cup {validating[s]}
  /\ validating' = [validating EXCEPT ![s] = ""]
  /\ UNCHANGED <<notMcp, transports, toolCall, supplied>>

\* validateApiKey answered false (GET /config had an error, or the request
\* threw): "Invalid API key", nothing is stored
AuthenticateInvalid(s) ==
  /\ validating[s] # ""
  /\ validating[s] \notin validatedApiKeys
  /\ validating' = [validating EXCEPT ![s] = ""]
  /\ UNCHANGED <<notMcp, transports, sessions, validatedApiKeys, lastUsedApiKey, toolCall, supplied>>

\* a tool other than authenticate, called with api_key = param ("" when
\* omitted): const key = getApiKey(sessionId, api_key); a key of "" is
\* answered "Not authenticated", any other key goes to the backend
ToolCall(s, param) ==
  /\ s \in transports
  /\ toolCall' = [session |-> s, param |-> param, key |-> getApiKey(s, param)]
  /\ lastUsedApiKey' = IF param # "" THEN param ELSE lastUsedApiKey
  /\ supplied' = [supplied EXCEPT ![s] = IF param # "" THEN @ \cup {param} ELSE @]
  /\ UNCHANGED <<notMcp, transports, sessions, validatedApiKeys, validating>>

NextMcp ==
  \/ \E s \in SessionIds : Connect(s)
  \/ \E s \in SessionIds : Close(s)
  \/ \E s \in SessionIds, k \in ApiKeys : Authenticate(s, k)
  \/ \E s \in SessionIds : AuthenticateValid(s)
  \/ \E s \in SessionIds : AuthenticateInvalid(s)
  \/ \E s \in SessionIds, param \in ApiKeys \cup {""} : ToolCall(s, param)

\* ---------------------------------------------------------- specification
\* the rows of table state an earlier run of the process may have left
PersistedStates ==
  {[h \in Names |-> IF h = "alice" THEN w ELSE 0] : w \in {0, 2}}

\* main(): the tables exist and survive restarts (config is any valid row,
\* state what an earlier run left), and the first poll() has been called
Init ==
  /\ config \in Configs
  /\ handleConfigs = [h \in Names |-> NoRow]
  /\ userConfig = NoConfig
  /\ sentTweets = <<>>
  /\ debugState = [lastPollAttempt |-> 1, lastPollSuccess |-> 0, lastPollError |-> "null"]
  /\ state \in PersistedStates
  /\ pollTimeout = 0
  /\ timers = {}
  /\ polls = [c \in PollIds |->
                IF c = 1 THEN [NotStarted EXCEPT !.pc = "getConfig", !.by = "main"]
                ELSE NotStarted]
  /\ totalPolls = 1
  /\ sent = <<>>
  /\ maxFetched = state
  /\ overlapped = FALSE
  /\ storeFailed = {}
  /\ stateFile = 0
  /\ watcher = WatcherIdle
  /\ recentTweets = <<>>
  /\ response = NoResponse
  /\ invoked = <<>>
  /\ nextFresh = 1
  /\ openClaw = NoExec
  /\ transports = {}
  /\ sessions = [s \in SessionIds |-> ""]
  /\ validatedApiKeys = {}
  /\ lastUsedApiKey = ""
  /\ validating = [s \in SessionIds |-> ""]
  /\ toolCall = NoToolCall
  /\ supplied = [s \in SessionIds |-> {}]
  /\ storeCall = NoStoreCall
  /\ putResponse = 0
  /\ mergeCall = NoMerge

Next ==
  \/ TimerFires
  \/ PostPoll
  \/ PutConfig
  \/ \E c \in PollIds : GetConfig(c)
  \/ \E c \in PollIds : FetchThrows(c)
  \/ \E c \in PollIds : FetchReturns(c)
  \/ \E c \in PollIds : GetLastSeenId(c)
  \/ \E c \in PollIds : SetLastSeenIdFirst(c)
  \/ \E c \in PollIds : GetHandleConfig(c)
  \/ \E c \in PollIds : SendToWebhookCall(c)
  \/ \E c \in PollIds : SendToWebhookReturn(c)
  \/ \E c \in PollIds : SetLastSeenIdNewest(c)
  \/ \E c \in PollIds : StoreError(c)
  \/ \E c \in PollIds : GetConfigThrows(c)

Spec == Init /\ [][Next]_vars

\* the runs in which poll() is never called while an invocation is in
\* flight: timers, manual triggers and config updates arrive between cycles
NextSeq ==
  \/ ActivePolls = {} /\ TimerFires
  \/ ActivePolls = {} /\ PostPoll
  \/ ActivePolls = {} /\ PutConfig
  \/ \E c \in PollIds : GetConfig(c)
  \/ \E c \in PollIds : FetchThrows(c)
  \/ \E c \in PollIds : FetchReturns(c)
  \/ \E c \in PollIds : GetLastSeenId(c)
  \/ \E c \in PollIds : SetLastSeenIdFirst(c)
  \/ \E c \in PollIds : GetHandleConfig(c)
  \/ \E c \in PollIds : SendToWebhookCall(c)
  \/ \E c \in PollIds : SendToWebhookReturn(c)
  \/ \E c \in PollIds : SetLastSeenIdNewest(c)
  \/ \E c \in PollIds : StoreError(c)
  \/ \E c \in PollIds : GetConfigThrows(c)

SpecSeq == Init /\ [][NextSeq]_vars

\* the steps of a cycle that the program or its bounded calls bring about:
\* the store queries settle, the scraper run is awaited for at most
\* waitSecs, sendToWebhook is called synchronously after the policy read
\* and returns at once when there is no webhook URL. The answer of the
\* webhook is not among them: the request carries no timeout and no abort
\* signal
CycleStep ==
  \E c \in PollIds :
    \/ GetConfig(c) \/ GetConfigThrows(c)
    \/ FetchThrows(c) \/ FetchReturns(c)
    \/ GetLastSeenId(c) \/ SetLastSeenIdFirst(c) \/ GetHandleConfig(c)
    \/ SendToWebhookCall(c) \/ SetLastSeenIdNewest(c) \/ StoreError(c)
    \/ (polls[c].config.webhookUrl = "" /\ SendToWebhookReturn(c))

\* the runs of SpecSeq in which a cycle that can take a step of its own
\* eventually takes one
SpecLive == Init /\ [][NextSeq]_vars /\ WF_vars(CycleStep)

\* the backend with users: the config update writes user_config,
\* sendToWebhook logs every answered delivery to sent_tweets, and poll()
\* keeps debugState; as in NextSeq, timers, manual triggers and config
\* updates arrive between cycles (the overlap of cycles is that of Next)
NextUsers ==
  \/ ActivePolls = {} /\ TimerFiresUsers
  \/ ActivePolls = {} /\ PostPollUsers
  \/ ActivePolls = {} /\ PutUserConfig
  \/ \E c \in PollIds : GetConfig(c)
  \/ \E c \in PollIds : FetchThrowsUsers(c)
  \/ \E c \in PollIds : FetchReturnsUsers(c)
  \/ \E c \in PollIds : GetLastSeenId(c)
  \/ \E c \in PollIds : SetLastSeenIdFirst(c)
  \/ \E c \in PollIds : GetHandleConfig(c)
  \/ \E c \in PollIds : SendToWebhookCall(c)
  \/ \E c \in PollIds : SendToWebhookNoUrl(c)
  \/ \E c \in PollIds : WebhookResponds(c)
  \/ \E c \in PollIds : LogSentTweet(c)
  \/ \E c \in PollIds : SetLastSeenIdNewest(c)
  \/ \E c \in PollIds : StoreErrorUsers(c)
  \/ \E c \in PollIds : GetConfigThrows(c)

SpecUsers == Init /\ [][NextUsers]_vars

\* the backend with the requests that write table handle_config; as in
\* NextSeq, the cycles do not overlap
NextPolicy ==
  \/ ActivePolls = {} /\ TimerFires
  \/ ActivePolls = {} /\ PostPoll
  \/ ActivePolls = {} /\ PutConfig
  \/ \E c \in PollIds : GetConfig(c)
  \/ \E c \in PollIds : FetchThrows(c)
  \/ \E c \in PollIds : FetchReturns(c)
  \/ \E c \in PollIds : GetLastSeenId(c)
  \/ \E c \in PollIds : SetLastSeenIdFirst(c)
  \/ \E c \in PollIds : GetHandleConfig(c)
  \/ \E c \in PollIds : SendToWebhookCall(c)
  \/ \E c \in PollIds : SendToWebhookReturn(c)
  \/ \E c \in PollIds : SetLastSeenIdNewest(c)
  \/ \E c \in PollIds : StoreError(c)
  \/ \E c \in PollIds : GetConfigThrows(c)
  \/ \E handle \in PathHandles : \E body \in Bodies : PutHandleConfig(handle, body)
  \/ \E handle \in PathHandles : DeleteHandleConfig(handle)

SpecPolicy == Init /\ [][NextPolicy]_vars

\* the file-based watcher: main() of part_003 and its setInterval
SpecWatcher == Init /\ [][NextWatcher]_vars

\* the webhook receiver: the server of part_004 with an empty recentTweets
SpecReceiver == Init /\ [][NextReceiver]_vars

\* the webhook receiver with the callbacks of its commands: every command
\* started ends, and the callback Node then queues runs
SpecOpenClaw == Init /\ [][NextOpenClaw]_vars /\ WF_vars(ExecEnds)

\* the MCP server: the process of part_001 with no connection yet
SpecMcp == Init /\ [][NextMcp]_vars

\* the backend of index.js with config updates of any body; of the cycle
\* only the steps that arm a timer are taken, the fetch always failing
NextValidate ==
  \/ \E body \in PutBodies : PutConfigBody(body)
  \/ TimerFires
  \/ \E c \in PollIds : GetConfig(c)
  \/ \E c \in PollIds : FetchThrows(c)

SpecValidate == Init /\ [][NextValidate]_vars

\* the per-handle policies written by requests with any body
SpecPolicyBody == Init /\ [][NextPolicyBody]_vars

\* deepMerge called once, on any two objects of the bounded depth
SpecMerge == Init /\ [][NextMerge]_vars

\* the watermark store called directly, with handles in either letter case
SpecStore == Init /\ [][NextStore]_vars

\* ------------------------------------------------------------------ claims
\* the sendToWebhook calls invocation c made for the tweets filed under author a
sentBy(c, a) == {sent[k].id : k \in {k \in DOMAIN sent :
                                       sent[k].poll = c /\ authorKey(sent[k].id) = a}}

\* C1: at most one poll cycle is in progress at any time, whatever the
\* interleaving of timer firings, POST /poll and PUT /config.
C1_SinglePollCycle == Cardinality(ActivePolls) <= 1

\* C2: no item id is passed to sendToWebhook more than once over the whole
\* run, overlapping cycles included.
C2_DispatchedOnce ==
  \A i, j \in DOMAIN sent : i # j => sent[i].id # sent[j].id

\* C3: the stored watermark of an account never decreases: every write of
\* table state leaves each row greater than or equal to what it was.
C3_WatermarkNeverDecreases ==
  [][\A h \in Names : state'[h] >= state[h]]_vars

\* C4: bootstrap. An invocation that reads no watermark for an author passes
\* none of the author's items to sendToWebhook, and its write sets the
\* watermark to the greatest id among the author's fetched items.
C4_Bootstrap ==
  /\ [](\A c \in PollIds : \A a \in polls[c].firstSeen : sentBy(c, a) = {})
  /\ [][\A c \in PollIds :
          (/\ polls[c].pc = "setLastSeenIdFirst"
           /\ polls'[c].pc # "setLastSeenIdFirst"
           /\ polls'[c].error # "store")
          => state'[Head(polls[c].authors)] =
               Max(byAuthor(polls[c].tweets, Head(polls[c].authors)))]_vars

\* C4 witness: an invocation bootstrapped alice from a fetch of one alice item
\* and went on to the next author with nothing sent
C4_Witness ==
  \E c \in PollIds :
    /\ polls[c].firstSeen = {"alice"}
    /\ polls[c].pc = "getLastSeenId"
    /\ Head(polls[c].authors) = "bob"
    /\ state["alice"] = Max(byAuthor(polls[c].tweets, "alice"))
    /\ state["alice"] > 0
    /\ sentBy(c, "alice") = {}

\* C5: within one invocation and one author the sendToWebhook calls are made
\* in increasing id order, each call made after the previous one returned.
C5_OldestFirst ==
  \A i, j \in DOMAIN sent :
    (/\ i < j
     /\ sent[i].poll = sent[j].poll
     /\ authorKey(sent[i].id) = authorKey(sent[j].id))
    => (sent[i].id < sent[j].id /\ sent[i].result # "pending")

\* C5 witness: one invocation has made two calls for the same author
C5_Witness ==
  \E i, j \in DOMAIN sent :
    /\ i < j
    /\ sent[i].poll = sent[j].poll
    /\ authorKey(sent[i].id) = authorKey(sent[j].id)

\* C6: an invocation whose fetch throws writes no watermark, calls
\* sendToWebhook for nothing, and arms the timer of the next cycle with its
\* interval before it returns.
C6_FetchFailureIsolation ==
  /\ [](\A c \in PollIds : polls[c].error = "fetch" =>
          /\ polls[c].pc = "done"
          /\ ~polls[c].wrote
          /\ polls[c].armed
          /\ \A k \in DOMAIN sent : sent[k].poll # c)
  /\ [][\A c \in PollIds :
          (polls[c].error # "fetch" /\ polls'[c].error = "fetch")
          => /\ state' = state
             /\ sent' = sent
             /\ [id |-> pollTimeout',
                 interval |-> polls[c].config.pollIntervalMinutes] \in timers']_vars

\* C6 witness: the fetch of an invocation threw and the timer is armed
C6_Witness ==
  \E c \in PollIds :
    /\ polls[c].error = "fetch"
    /\ polls[c].pc = "done"
    /\ \E t \in timers : t.id = pollTimeout

\* C7: partition. For an author whose watermark w the invocation read as
\* present, the ids passed to sendToWebhook are fetched items of the author
\* above w at every moment, and all of them once the send loop has ended.
C7_Partition ==
  \A c \in PollIds :
    polls[c].pc \in {"getHandleConfig", "send", "sending", "setLastSeenId"} =>
      LET a == Head(polls[c].authors)
          new == {i \in byAuthor(polls[c].tweets, a) : i > polls[c].lastSeenId}
      IN  /\ polls[c].lastSeenId > 0
          /\ sentBy(c, a) \subseteq new
          /\ polls[c].pc = "setLastSeenId" => sentBy(c, a) = new

\* C7 witness: the send loop ended for an author whose fetched items lie on
\* both sides of the watermark that was read
C7_Witness ==
  \E c \in PollIds :
    /\ polls[c].pc = "setLastSeenId"
    /\ sentBy(c, Head(polls[c].authors)) # {}
    /\ \E i \in byAuthor(polls[c].tweets, Head(polls[c].authors)) :
         i <= polls[c].lastSeenId

\* C8: unconditional advance. When the last sendToWebhook of an author's new
\* set returns, with any result, the invocation goes to the watermark write,
\* and the write sets the watermark to the greatest id among the author's
\* fetched items whatever the results were.
C8_UnconditionalAdvance ==
  [][\A c \in PollIds :
       /\ (polls[c].pc = "sending" /\ Len(polls[c].newTweets) = 1
           /\ polls'[c].pc # "sending")
          => polls'[c].pc = "setLastSeenId"
       /\ (polls[c].pc = "setLastSeenId" /\ polls'[c].pc # "setLastSeenId"
           /\ polls'[c].error # "store")
          => state'[Head(polls[c].authors)] =
               Max(byAuthor(polls[c].tweets, Head(polls[c].authors)))]_vars

\* C8 witness: every send of an invocation failed and the watermark stands
\* at the id of a failed item, written by that invocation
C8_Witness ==
  /\ ~overlapped
  /\ \E k \in DOMAIN sent :
       /\ \A j \in DOMAIN sent : sent[j].poll = sent[k].poll => sent[j].result = "failed"
       /\ polls[sent[k].poll].wrote
       /\ state[authorKey(sent[k].id)] = sent[k].id

\* C9: when the cycles did not overlap and no store query was rejected, once
\* no cycle is in progress every account's watermark is the greatest id
\* filed under that account over all the fetches (what one cycle over their
\* union leaves).
C9_WatermarkIsMaxFetched ==
  (ActivePolls = {} /\ ~overlapped /\ storeFailed = {})
  => \A a \in Names : state[a] = maxFetched[a]

\* C9 witness: two cycles ran one after the other, the second dispatched,
\* and the watermark moved past what the first cycle left
C9_Witness ==
  /\ ActivePolls = {}
  /\ ~overlapped
  /\ storeFailed = {}
  /\ totalPolls >= 2
  /\ \E k \in DOMAIN sent : sent[k].poll = 2 /\ state["alice"] >= sent[k].id
  /\ \A c \in PollIds : polls[c].error = "none"

\* C10: when the cycles did not overlap and no watermark write was rejected,
\* an item whose delivery failed in one cycle is not passed to sendToWebhook
\* by any later cycle.
C10_FailedNotResent ==
  (~overlapped /\ "setLastSeenId" \notin storeFailed)
  => \A i, j \in DOMAIN sent :
       (sent[i].result = "failed" /\ sent[i].poll < sent[j].poll)
       => sent[i].id # sent[j].id

\* C10 witness: an item failed in the first cycle, the second cycle fetched
\* it again and is dispatching the items above the watermark
C10_Witness ==
  /\ ~overlapped
  /\ "setLastSeenId" \notin storeFailed
  /\ \E k \in DOMAIN sent :
       /\ sent[k].result = "failed"
       /\ sent[k].poll = 1
       /\ polls[2].pc \in {"send", "sending", "setLastSeenId"}
       /\ sent[k].id \in polls[2].tweets
       /\ Head(polls[2].authors) = authorKey(sent[k].id)

\* C11: a trigger that arrives while a cycle is in progress is coalesced:
\* a new cycle starts only when no cycle is in progress.
C11_TriggerCoalesced ==
  [][totalPolls' # totalPolls => ActivePolls = {}]_vars

\* C12: the items of an author who is not in the configured account list are
\* discarded: while a cycle handles such an author, no watermark row is
\* created or changed and sendToWebhook is not called.
C12_UnconfiguredDiscarded ==
  [][\A c \in PollIds :
       (/\ Active(c)
        /\ polls'[c] # polls[c]
        /\ polls[c].authors # <<>>
        /\ Head(polls[c].authors) \notin polls[c].config.handles)
       => (state' = state /\ sent' = sent)]_vars

\* C13: a cycle whose fetch returned no item for a configured account leaves
\* that account's watermark as it is and calls sendToWebhook for none of its
\* items, in every step from the fetch on.
C13_NoItemNoEffect ==
  [][\A c \in PollIds : \A a \in {"alice", "bob"} :
       LET tweets == IF polls[c].pc = "fetch" THEN polls'[c].tweets
                     ELSE polls[c].tweets
       IN  (/\ Active(c)
            /\ polls[c].pc # "getConfig"
            /\ polls'[c] # polls[c]
            /\ a \in polls[c].config.handles
            /\ byAuthor(tweets, a) = {})
           => /\ state'[a] = state[a]
              /\ \A k \in DOMAIN sent' \ DOMAIN sent : authorKey(sent'[k].id) # a]_vars

\* the first cycle ran to its end for alice and bob, fetched items of alice
\* only, sent and recorded them, and bob still has no watermark
C13_Witness ==
  /\ totalPolls = 1
  /\ polls[1].pc = "done" /\ polls[1].wrote /\ polls[1].error = "none"
  /\ "bob" \in config.handles
  /\ maxFetched["bob"] = 0
  /\ state["bob"] = 0
  /\ sent # <<>>
  /\ state["alice"] > 2

\* C14: when the account list read at the start of a cycle is empty, the
\* cycle ends in that same step: no fetch, no watermark access, no dispatch,
\* and a timer armed with the configured interval.
C14_NoHandlesSkip ==
  [][\A c \in PollIds :
       (/\ polls[c].pc = "getConfig"
        /\ polls'[c] # polls[c]
        /\ polls'[c].error = "none"
        /\ getConfig.handles = {})
       => /\ polls'[c].pc = "done" /\ polls'[c].armed
          /\ state' = state /\ sent' = sent /\ maxFetched' = maxFetched
          /\ pollTimeout' # 0
          /\ [id |-> pollTimeout', interval |-> getConfig.pollIntervalMinutes]
               \in timers']_vars

\* the first cycle found no handles and armed the timer
C14_Witness ==
  /\ totalPolls = 1
  /\ config.handles = {}
  /\ polls[1].pc = "done" /\ polls[1].armed /\ polls[1].error = "none"
  /\ timers = {[id |-> pollTimeout, interval |-> config.pollIntervalMinutes]}
  /\ sent = <<>>

\* C15: polling never stops for good: whenever no cycle is in progress, a
\* timer for the next cycle is pending, whatever path the last cycle took.
C15_AlwaysRearmed ==
  ActivePolls = {} => timers # {}

\* C16: once every in-flight cycle has finished, the pending timer carries
\* the interval of the configuration as it is now, also when the interval
\* was changed while a cycle was in progress.
C16_TimerHasNewInterval ==
  ActivePolls = {} =>
    \A t \in timers : t.interval = getConfig.pollIntervalMinutes

\* C17: the cycle that a successful PUT /config starts reads the updated
\* configuration: when it is about to read, getConfig() returns what the
\* update saved.
C17_RestartReadsUpdate ==
  \A c \in PollIds :
    (polls[c].by = "put" /\ polls[c].pc = "getConfig") => getConfig = userConfig

\* C18: with no cycle in progress and a timer pending, POST /poll or a
\* config update leaves no timer pending (the cancelled timer cannot fire)
\* and the new cycle is started in that same step.
C18_TriggerCancelsTimer ==
  [][(/\ ActivePolls = {}
      /\ timers # {}
      /\ totalPolls' # totalPolls
      /\ polls'[totalPolls'].by \in {"post", "put"})
     => (timers' = {} /\ polls'[totalPolls'].pc = "getConfig")]_vars

\* the first cycle ended with its timer armed, and a manual trigger or a
\* config update started the second one while that timer was pending
C18_Witness ==
  /\ polls[1].pc = "done" /\ polls[1].armed
  /\ ~overlapped
  /\ polls[2].by \in {"post", "put"} /\ polls[2].pc = "getConfig"
  /\ timers = {}

\* C19: sendToWebhook never throws, and a failed delivery stops nothing:
\* whatever the outcome, the cycle goes on without an error to the next item
\* of the account or, after the last one, to the account's write, and after
\* the write to the next account.
C19_SendNeverThrows ==
  [][\A c \in PollIds :
       /\ (polls[c].pc \in {"sending", "logging"} /\ polls'[c] # polls[c])
          => /\ polls'[c].error = "none"
             /\ polls'[c].authors = polls[c].authors
             /\ \/ polls[c].pc = "sending" /\ polls'[c].pc = "logging"
                \/ /\ polls'[c].newTweets = Tail(polls[c].newTweets)
                   /\ polls'[c].pc = IF Tail(polls[c].newTweets) = <<>>
                                     THEN "setLastSeenId" ELSE "send"
       /\ (/\ polls[c].pc = "setLastSeenId"
           /\ polls'[c] # polls[c]
           /\ polls'[c].error = "none"
           /\ Tail(polls[c].authors) # <<>>)
          => /\ polls'[c].pc = "getLastSeenId"
             /\ polls'[c].authors = Tail(polls[c].authors)]_vars

\* a delivery failed although a webhook URL is configured, and the same
\* cycle went on to call sendToWebhook for a later item
C19_Witness ==
  \E i, j \in DOMAIN sent :
    /\ i < j
    /\ sent[i].poll = sent[j].poll
    /\ sent[i].result = "failed"
    /\ polls[sent[i].poll].config.webhookUrl # ""

\* the row logSentTweet inserts for the request invocation c has had answered
deliveryRecord(c) ==
  [tweet_id |-> Head(polls[c].newTweets),
   status |-> IF polls[c].result = "ok" THEN "sent" ELSE "failed"]

\* C20 as stated: every delivery attempt appends exactly one record for its
\* item to sent_tweets, 'sent' if and only if the answer was 2xx.
C20_OneRecordPerAttempt ==
  [][\A c \in PollIds :
       (polls[c].pc = "logging" /\ polls'[c].pc # "logging")
       => sentTweets' = Append(sentTweets, deliveryRecord(c))]_vars

\* C20 amended: sent_tweets only ever changes by one record appended at the
\* end of a delivery attempt, for that attempt's item, with status 'sent' if
\* and only if the answer was 2xx; an attempt appends at most one record
\* (none when the insert fails), and no record is modified or removed.
C20_AtMostOneRecordAppended ==
  [][sentTweets' # sentTweets
        => \E c \in PollIds :
             /\ polls[c].pc = "logging" /\ polls'[c].pc # "logging"
             /\ sentTweets' = Append(sentTweets, deliveryRecord(c))]_vars

\* the log holds a 'sent' and a 'failed' record
C20_Witness ==
  \E i, j \in DOMAIN sentTweets :
    sentTweets[i].status = "sent" /\ sentTweets[j].status = "failed"

\* C21: the status fields tell a broken fetch from a working one: the step
\* in which a cycle's fetch fails leaves lastPollAttempt at that cycle and
\* lastPollSuccess as it was and sets lastPollError; the step in which the
\* fetch succeeds sets lastPollSuccess to that cycle and lastPollError to
\* null, and no later step of the cycle without an error changes them.
C21_StatusFields ==
  [][\A c \in PollIds :
       /\ (polls[c].pc = "fetch" /\ polls'[c].error = "fetch")
          => /\ debugState'.lastPollAttempt = c
             /\ debugState'.lastPollSuccess = debugState.lastPollSuccess
             /\ debugState'.lastPollError # "null"
       /\ (polls[c].pc = "fetch" /\ polls'[c] # polls[c] /\ polls'[c].error = "none")
          => /\ debugState'.lastPollAttempt = c
             /\ debugState'.lastPollSuccess = c
             /\ debugState'.lastPollError = "null"
       /\ (/\ Active(c) /\ polls[c].pc \notin {"getConfig", "fetch"}
           /\ polls'[c] # polls[c] /\ polls'[c].error = "none")
          => debugState' = debugState]_vars

\* the fetch of the first cycle succeeded, that of the second one failed
C21_Witness ==
  /\ ActivePolls = {}
  /\ debugState = [lastPollAttempt |-> 2, lastPollSuccess |-> 1, lastPollError |-> "fetch"]

\* C22: a storage failure while reading or writing a watermark is not
\* swallowed: a cycle that met one processes nothing further and writes
\* nothing; its next step is its end.
C22_StorageFailureAborts ==
  [][(watcher.pc # "idle" /\ watcher.failed /\ watcher' # watcher)
     => (watcher'.pc = "idle" /\ stateFile' = stateFile)]_vars

\* C28: in the file-based watcher the stored lastSeenTweetId never decreases.
C28_FileWatermarkNeverDecreases ==
  [][stateFile' >= stateFile]_vars

\* C23: resolving the policy of an account that has no row returns the
\* default policy (mode 'now', empty prompt and channel), in every spelling
\* of the handle; and a DELETE /handle-config step for a handle leaves it
\* resolving to the default.
C23_DefaultPolicy ==
  /\ [](\A h \in Names :
          handleConfigs[toLowerCase(h)] = NoRow
          => getHandleConfig(h) =
               [handle |-> toLowerCase(h), mode |-> "now", prompt |-> "", channel |-> ""])
  /\ [][\A h \in PathHandles :
          DeleteHandleConfig(h)
          => getHandleConfig(h)' =
               [handle |-> toLowerCase(h), mode |-> "now", prompt |-> "", channel |-> ""]]_vars

\* a policy was stored for alice and resolves to the stored row, while bob,
\* who has none, resolves to the default
C23_Witness ==
  /\ getHandleConfig("Alice").mode = "next-heartbeat"
  /\ handleConfigs["bob"] = NoRow
  /\ getHandleConfig("Bob").mode = "now"

\* C24: a failed read of an account's policy does not abort the cycle:
\* whatever the outcome of the read, the cycle goes on without an error to
\* dispatch the account's new items.
C24_PolicyFailureDegrades ==
  [][\A c \in PollIds :
       (polls[c].pc = "getHandleConfig" /\ polls'[c] # polls[c])
       => (polls'[c].pc = "send" /\ polls'[c].error = "none")]_vars

\* C29: a watermark changes only in a step in which a poll cycle's
\* setLastSeenId completes; a step that changes the configuration or a
\* per-handle policy changes no watermark.
C29_WatermarkFrame ==
  [][/\ state' # state
        => \E c \in PollIds :
             /\ polls[c].pc \in {"setLastSeenIdFirst", "setLastSeenId"}
             /\ polls'[c] # polls[c]
     /\ (config' # config \/ handleConfigs' # handleConfigs) => state' = state]_vars

\* a config update has just emptied the account list, a policy is stored
\* for alice, and alice's watermark is still there
C29_Witness ==
  /\ polls[2].by = "put" /\ polls[2].pc = "getConfig"
  /\ config.handles = {}
  /\ handleConfigs["alice"] # NoRow
  /\ state["alice"] # 0

\* C27: a webhook that never responds cannot block a cycle forever: a
\* cycle waiting for the answer to a delivery eventually stops waiting for
\* it, and every started cycle eventually returns.
C27_SendEventuallyEnds ==
  \A c \in PollIds :
    /\ (polls[c].pc = "sending") ~> (polls[c].pc # "sending")
    /\ Active(c) ~> (polls[c].pc = "done")

\* C25: once the receiver has accepted the MaxRecent + 1 distinct ids
\* 1..MaxRecent + 1 in order, the cache holds exactly the last MaxRecent of
\* them; a redelivery of the first id is then processed as new, and a
\* redelivery of any of the others is answered as a duplicate.
C25_DedupBoundary ==
  /\ [](invoked = [i \in 1..(MaxRecent + 1) |-> i]
        => recentTweets = [i \in 1..MaxRecent |-> i + 1])
  /\ [][(invoked = [i \in 1..(MaxRecent + 1) |-> i] /\ response'.status = 200)
        => /\ response'.id = 1
              => (~response'.duplicate /\ invoked' = Append(invoked, 1))
           /\ response'.id \in 2..(MaxRecent + 1) => response'.duplicate]_vars

\* after the ids 1..MaxRecent + 1, the first id was redelivered and
\* passed to the agent a second time
C25_Witness ==
  /\ invoked = [i \in 1..(MaxRecent + 2) |-> IF i = MaxRecent + 2 THEN 1 ELSE i]
  /\ response = [id |-> 1, status |-> 200, duplicate |-> FALSE]

\* C26: a new_tweet webhook whose tweet id is in recentTweets is answered
\* with success and duplicate = true, passes nothing to the agent, and
\* leaves the contents and the order of recentTweets as they are.
C26_DuplicateNotActedOn ==
  [][(response'.id # 0 /\ has(recentTweets, response'.id))
     => /\ response'.status = 200 /\ response'.duplicate
        /\ invoked' = invoked
        /\ recentTweets' = recentTweets]_vars

\* the latest request was a redelivery of an id that is in the full cache,
\* answered as a duplicate; every id was passed to the agent once
C26_Witness ==
  /\ Len(recentTweets) = MaxRecent
  /\ response.duplicate /\ has(recentTweets, response.id)
  /\ \A j, k \in DOMAIN invoked : invoked[j] = invoked[k] => j = k


\* C30: a tool call of a session that has not authenticated and carries no
\* api_key is given no key by getApiKey (it is answered "Not authenticated");
\* at the least it is never given a key that no call of its own session
\* carried
C30_KeyIsolation ==
  [][\A s \in SessionIds :
       (ToolCall(s, "") /\ sessions[s] = "")
       => (toolCall'.key = "" \/ toolCall'.key \in supplied[s])]_vars

\* the new set of the author invocation c is working on: the fetched items
\* of the author that are newer than the watermark the invocation read
newSetOf(c) ==
  newTweetsOf(sortNewestFirst(byAuthor(polls[c].tweets, Head(polls[c].authors))),
              polls[c].lastSeenId)

\* C31: within a cycle the watermark write that follows the send loop starts
\* only after every sendToWebhook call for the author's new set has
\* completed: when an invocation is at that setLastSeenId, each item of the
\* new set has a call of the invocation that resolved (ok or failed) and no
\* call of the invocation is pending.
C31_DispatchBarrier ==
  \A c \in PollIds :
    polls[c].pc = "setLastSeenId"
    => /\ \A k \in DOMAIN newSetOf(c) :
            \E j \in DOMAIN sent :
              /\ sent[j].poll = c /\ sent[j].id = newSetOf(c)[k]
              /\ sent[j].result \in {"ok", "failed"}
       /\ \A j \in DOMAIN sent : sent[j].poll = c => sent[j].result # "pending"

\* an invocation is at the write after a new set of two items, one
\* delivered and one failed
C31_Witness ==
  \E c \in PollIds :
    /\ polls[c].pc = "setLastSeenId"
    /\ Len(newSetOf(c)) = 2
    /\ \E j, k \in DOMAIN sent :
         /\ sent[j].poll = c /\ sent[j].result = "ok"
         /\ sent[k].poll = c /\ sent[k].result = "failed"

\* invocation c has fetched items of author a and has still to read a's
\* watermark
awaitsWatermark(c, a) ==
  \E k \in DOMAIN polls[c].authors :
    /\ polls[c].authors[k] = a
    /\ k > 1 \/ polls[c].pc = "getLastSeenId"

\* the items invocation c dispatches for author a when it reads the
\* watermark st[a]: none on a first poll, else the fetched items newer than it
dispatchSet(c, a, st) ==
  IF st[a] = 0 THEN <<>>
  ELSE newTweetsOf(sortNewestFirst(byAuthor(polls[c].tweets, a)), st[a])

\* C32: a config update that lands while a cycle is in progress changes
\* nothing of that cycle: the step of the update leaves the cycle's snapshot
\* (account list, webhook URL, fetched items) as it is, and no step of the
\* cycle the update starts changes the set of items the running cycle is
\* going to dispatch for an author.
C32_SnapshotIsolation ==
  [][/\ config' # config => \A c \in PollIds : Active(c) => polls'[c] = polls[c]
     /\ \A c, d \in PollIds : \A a \in Names :
          (/\ c < d /\ polls[d].by = "put"
           /\ polls'[d] # polls[d] /\ polls'[c] = polls[c]
           /\ awaitsWatermark(c, a))
          => dispatchSet(c, a, state') = dispatchSet(c, a, state)]_vars

\* two handles that are equal when letter case is ignored
SameIgnoringCase(h1, h2) ==
  \/ {h1, h2} \subseteq {"Alice", "alice"}
  \/ {h1, h2} \subseteq {"Bob", "bob"}

\* C33: right after setLastSeenId(h, id), getLastSeenId(h') is id for every
\* h' equal to h ignoring letter case; the set changes the value returned
\* for no handle that differs from h in more than letter case; and the same
\* set made again changes nothing.
C33_StoreRoundTrip ==
  /\ [](storeCall.op = "set"
        => \A h \in Names : SameIgnoringCase(h, storeCall.handle)
                               => getLastSeenId(h) = storeCall.id)
  /\ [][storeCall'.op = "set"
        => /\ \A h \in Names : ~SameIgnoringCase(h, storeCall'.handle)
                                 => getLastSeenId(h)' = getLastSeenId(h)
           /\ (storeCall.op = "set" /\ storeCall'.handle = storeCall.handle
                /\ storeCall'.id = storeCall.id) => state' = state]_vars

\* a watermark was set under the name Alice over an older one, another
\* account has a watermark too, and the read under the name alice gave it
C33_Witness ==
  /\ storeCall = [op |-> "get", handle |-> "alice", id |-> 0, result |-> 4]
  /\ state["bob"] = 5
  /\ state["Alice"] = 0

\* the position in the history of acceptances at which the id now in the
\* cache was accepted
acceptedAt(id) == Max({k \in DOMAIN invoked : invoked[k] = id})

\* C34: the cache never holds more than MaxRecent ids, and the id a request
\* evicts is the one accepted earliest among the ids the cache held, also
\* when duplicates of cached ids were received in between.
C34_BoundedFifo ==
  /\ [](Len(recentTweets) <= MaxRecent)
  /\ [][\A k \in DOMAIN recentTweets :
          ~has(recentTweets', recentTweets[k])
          => \A j \in DOMAIN recentTweets :
               acceptedAt(recentTweets[k]) <= acceptedAt(recentTweets[j])]_vars

\* the cache is full and the acceptance of id MaxRecent + 1 has just
\* evicted id 1
C34_Witness ==
  /\ Len(recentTweets) = MaxRecent
  /\ ~has(recentTweets, 1) /\ has(recentTweets, 2)
  /\ response = [id |-> MaxRecent + 1, status |-> 200, duplicate |-> FALSE]

\* the value of body.pollIntervalMinutes is an integer in 1..1440
isIntegerInRange(str) ==
  /\ str # <<>>
  /\ \A k \in DOMAIN str : isDigit(str[k])
  /\ leadingDigits(str, 0) \in MinInterval..MaxInterval

\* the body fails validation as the claim states it: a pollIntervalMinutes
\* that is not an integer in 1..1440, a webhookUrl that is not a string, or
\* handles that are not an array (an absent field stands for the stored one)
failsValidation(body) ==
  \/ body.pollIntervalMinutes # <<>> /\ ~isIntegerInRange(body.pollIntervalMinutes)
  \/ body.webhookUrl.type \notin {"undefined", "string"}
  \/ body.handles.type \notin {"undefined", "array"}

\* C35: a PUT /config whose body fails validation is answered with an error,
\* leaves the stored configuration as it is and does not restart polling (no
\* timer is cleared and no cycle is started).
C35_InvalidConfigRejected ==
  [][\A body \in PutBodies :
       (failsValidation(body) /\ PutConfigBody(body))
       => /\ putResponse' = 400
          /\ config' = config
          /\ UNCHANGED <<timerVars, polls, totalPolls>>]_vars

\* C36: for every key, the result of deepMerge(target, source) keeps
\* target's value when source has not the key, holds the merge of source's
\* value into target's value when source's value is a non-array object, and
\* holds source's value when that is an array or a scalar; the arguments are
\* not changed; and merging source into the result again gives the result.
C36_DeepMergeStructural ==
  mergeCall.target # Undefined
  => LET c == mergeCall IN
     /\ \A k \in MergeKeys :
          /\ c.source.v[k] = Undefined => c.result.v[k] = c.target.v[k]
          /\ c.source.v[k].t = "object"
             => c.result.v[k] =
                  deepMerge(spread(c.target.v[k]), c.source.v[k], c.protoFirst)
          /\ c.source.v[k].t \in {"array", "scalar"} => c.result.v[k] = c.source.v[k]
     /\ c.targetAfter = c.target /\ c.sourceAfter = c.source
     /\ c.again = c.result

\* C37: at any time at most one timer for a future poll is pending, and a
\* pending timer is the one pollTimeout refers to, also when two cycles
\* that overlapped finish one after the other.
C37_OneTimerPending ==
  /\ Cardinality(timers) <= 1
  /\ \A t \in timers : t.id = pollTimeout

\* two cycles overlapped, both have ended by arming a timer, and one timer
\* is pending
C37_Witness ==
  /\ overlapped
  /\ \A c \in PollIds : polls[c].pc = "done" /\ polls[c].armed
  /\ Cardinality(timers) = 1

\* C38: without a webhook URL a cycle delivers none of the new items it
\* finds (no call of sendToWebhook made without a URL succeeds) and still
\* advances the watermark to the newest fetched id when its write is made;
\* and, no watermark write having been rejected, an item passed over in this
\* way is not passed to sendToWebhook by a later cycle that has a URL.
C38_NoUrlItemsLost ==
  /\ [](\A i \in DOMAIN sent : sent[i].url = "" => sent[i].result # "ok")
  /\ [][\A c \in PollIds :
          (/\ polls[c].pc = "setLastSeenId" /\ polls[c].config.webhookUrl = ""
           /\ polls'[c] # polls[c] /\ polls'[c].error = "none")
          => state'[Head(polls[c].authors)] = Max(byAuthor(polls[c].tweets,
                                                          Head(polls[c].authors)))]_vars
  /\ []("setLastSeenId" \notin storeFailed
        => \A i, j \in DOMAIN sent :
             (sent[i].url = "" /\ sent[j].url # "" /\ sent[i].poll < sent[j].poll)
             => sent[i].id # sent[j].id)

\* C39: PUT /handle-config/{handle} replaces the whole policy: a body whose
\* mode is present and neither 'now' nor 'next-heartbeat' is rejected and
\* the stored policies are unchanged; any other body is accepted, and the
\* policy read afterwards has the body's fields, each omitted field being
\* its default ('now', '', '') whatever was stored before.
C39_PolicyReplaced ==
  [][\A handle \in Names : \A body \in PolicyBodies :
       PutHandleConfigBody(handle, body)
       => IF body.mode \notin {Absent, "now", "next-heartbeat"}
          THEN putResponse' = 400 /\ handleConfigs' = handleConfigs
          ELSE /\ putResponse' = 200
               /\ getHandleConfig(handle)' =
                    [handle |-> toLowerCase(handle),
                     mode |-> IF body.mode = Absent THEN "now" ELSE body.mode,
                     prompt |-> IF body.prompt = Absent THEN "" ELSE body.prompt,
                     channel |-> IF body.channel = Absent THEN "" ELSE body.channel]]_vars

\* C40: every new_tweet webhook the receiver accepts as not a duplicate
\* eventually has exactly one of two outcomes: its agent command completed
\* without error, or its formatted message was appended to the fallback log
\* file. No accepted item stays without an outcome, and none has both.
C40_AcceptedItemHasOutcome ==
  /\ [](openClaw.completed \cap openClaw.logged = {})
  /\ \A k \in 1..MaxExec :
       (k \in DOMAIN invoked) ~> (k \in openClaw.completed \cup openClaw.logged)

=============================================================================
